---------------------------- MODULE Spec2Model ----------------------------
(***************************************************************************)
(* CurvedScrollBar (components/CurvedScrollBar.tsx): the rail geometry,    *)
(* the scroll-progress spring follower and the dash-pattern indicator.     *)
(*                                                                         *)
(* Numbers are fixed point:                                                *)
(*   lengths and coordinates   in 1/LS pixel   (LS = 10)                   *)
(*   progress and spring state in 1/PS         (PS = 10000, 1.0 = PS)      *)
(*   dash offsets              in 1/(LS*PS) pixel                          *)
(* The animation clock ticks once per frame, 60 frames per second.         *)
(***************************************************************************)
EXTENDS Integers, Sequences, FiniteSets

\* ------------------------------------------------------------------ scales

LS == 2 * 5
PS == LS * 1000
\* frames per second of the animation clock (scrollEventThrottle 16 ms)
FramesPerSecond == 6 * LS

\* ------------------------------------------------------------------ bounds

\* scroll events delivered in one behaviour
MaxScrolls == 2
\* GeomSpec draws widths 3*n and heights 4*n pixels, n in 0..MaxGeomIndex
MaxGeomIndex == 160
\* calls of calculateRailPath are counted up to this number
MaxPathRuns == 2

\* ----------------------------------------------------- SCROLLBAR_CONFIG

cornerRadius == 12
edgePadding == 10
\* horizontalPosition 1.1, in tenths
horizontalPositionTenths == 11
visibleLength == 70
damping == 30
stiffness == 500

\* Math.PI in thousandths
PiMilli == 3142

\* ------------------------------------------------------------- arithmetic

Abs(n) == IF n < 0 THEN -n ELSE n

\* n / d rounded to the nearest integer (d > 0)
RoundDiv(n, d) == (2 * n + d) \div (2 * d)

RECURSIVE SqrtSearch(_, _, _)
SqrtSearch(n, lo, hi) ==
    IF lo >= hi THEN lo
    ELSE LET mid == (lo + hi + 1) \div 2
         IN  IF mid * mid <= n THEN SqrtSearch(n, mid, hi)
                               ELSE SqrtSearch(n, lo, mid - 1)

\* Math.sqrt on the fixed-point grid: the largest r with r*r <= n
Sqrt(n) == SqrtSearch(n, 0, 40000)

Max(a, b) == IF a >= b THEN a ELSE b
Min(a, b) == IF a <= b THEN a ELSE b

\* ------------------------------------------------------------------ state

VARIABLES
    containerDimensions,  \* useState({width: 0, height: 0}), pixels
    contentHeight,        \* useState(0), pixels
    scrollViewHeight,     \* useState(0), pixels
    showRail,             \* prop, owned by App's useState(true)
    railGeometry,         \* const railGeometry = calculateRailPath() of the last render
    scrollProgress,       \* useSharedValue(0): the spring's current value, 1/PS
    toValue,              \* the target last handed to withSpring, 1/PS
    velocity,             \* the spring's velocity, 1/PS per frame
    animating,            \* a spring animation is running on scrollProgress
    nScrolls,             \* scroll events delivered so far
    pathRuns,             \* calls of calculateRailPath so far, up to MaxPathRuns
    contentOffsetY        \* contentOffset.y of the native ScrollView, pixels

vars == <<containerDimensions, contentHeight, scrollViewHeight, showRail,
          railGeometry, scrollProgress, toValue, velocity, animating, nScrolls,
          pathRuns, contentOffsetY>>

\* ------------------------------------------------------- calculateRailPath

EmptyGeometry ==
    [railPath |-> <<>>, points |-> <<>>, segmentLengths |-> <<>>, totalLength |-> 0]

\* the six key points, in 1/LS pixel
RailPoints(dim) ==
    LET w == dim.width * LS
        h == dim.height * LS
        e == edgePadding * LS
        r == cornerRadius * LS
        startX == RoundDiv(dim.width * LS * 10, horizontalPositionTenths)
    IN  << [x |-> startX,     y |-> e + r],
           [x |-> w - e - r,  y |-> e + r],
           [x |-> w - e,      y |-> e + r + r],
           [x |-> w - e,      y |-> h - e - r - r],
           [x |-> w - e - r,  y |-> h - e - r],
           [x |-> startX,     y |-> h - e - r] >>

\* segment lengths taken as dx + dy instead of the Euclidean distance
SegmentLengthSigned(points, i) ==
    IF i = 1 \/ i = 3
    THEN RoundDiv(PiMilli * cornerRadius * LS, 2 * 1000) + 2 * LS
    ELSE (points[i + 2].x - points[i + 1].x) + (points[i + 2].y - points[i + 1].y)

\* the length pushed for segment i of the loop (i is the 0-based loop index)
SegmentLength(points, i) ==
    IF i = 1 \/ i = 3
    THEN RoundDiv(PiMilli * cornerRadius * LS, 2 * 1000) + 2 * LS
    ELSE LET dx == points[i + 2].x - points[i + 1].x
             dy == points[i + 2].y - points[i + 1].y
         IN  Sqrt(dx * dx + dy * dy)

\* segmentLengths after the loop has pushed n lengths
RECURSIVE SegmentLengths(_, _)
SegmentLengths(points, n) ==
    IF n = 0 THEN <<>>
    ELSE Append(SegmentLengths(points, n - 1), SegmentLength(points, n - 1))

\* totalLength adding the straight-line distance of every segment, the arcs'
\* chords included
RECURSIVE TotalLengthChords(_, _)
TotalLengthChords(points, n) ==
    IF n = 0 THEN 0
    ELSE LET dx == points[n + 1].x - points[n].x
             dy == points[n + 1].y - points[n].y
         IN  TotalLengthChords(points, n - 1) + Sqrt(dx * dx + dy * dy)

\* totalLength after the loop has added n lengths
RECURSIVE TotalLength(_, _)
TotalLength(points, n) ==
    IF n = 0 THEN 0
    ELSE TotalLength(points, n - 1) + SegmentLength(points, n - 1)

\* the path loop testing the segment index of the length loop (1 and 3) where
\* it has to test the index of the arc's end point (2 and 4)
PathCommandAtSegmentIndex(points, i) ==
    IF i = 1 \/ i = 3
    THEN <<"A", cornerRadius, cornerRadius, 0, 0, 1, points[i + 1].x, points[i + 1].y>>
    ELSE <<"L", points[i + 1].x, points[i + 1].y>>

\* the command appended for points[i] (0-based i >= 1)
PathCommand(points, i) ==
    IF i = 2 \/ i = 4
    THEN <<"A", cornerRadius, cornerRadius, 0, 0, 1, points[i + 1].x, points[i + 1].y>>
    ELSE <<"L", points[i + 1].x, points[i + 1].y>>

\* railPath after the loop has handled points[1..n], as a sequence of commands
RECURSIVE RailPath(_, _)
RailPath(points, n) ==
    IF n = 0 THEN << <<"M", points[1].x, points[1].y>> >>
    ELSE Append(RailPath(points, n - 1), PathCommand(points, n))

\* calculateRailPath returning early only when both dimensions are 0
CalculateRailPathBothZero(dim) ==
    IF dim.width = 0 /\ dim.height = 0
    THEN EmptyGeometry
    ELSE LET points == RailPoints(dim)
         IN  [railPath       |-> RailPath(points, Len(points) - 1),
              points         |-> points,
              segmentLengths |-> SegmentLengths(points, Len(points) - 1),
              totalLength    |-> TotalLength(points, Len(points) - 1)]

CalculateRailPath(dim) ==
    IF dim.width = 0 \/ dim.height = 0
    THEN EmptyGeometry
    ELSE LET points == RailPoints(dim)
         IN  [railPath       |-> RailPath(points, Len(points) - 1),
              points         |-> points,
              segmentLengths |-> SegmentLengths(points, Len(points) - 1),
              totalLength    |-> TotalLength(points, Len(points) - 1)]

\* ------------------------------------------------------------ handleScroll

\* handleScroll with the clamp left out
ScrollTargetUnclamped(offsetY, contentSizeHeight, layoutHeight) ==
    LET maxScrollDistance == contentSizeHeight - layoutHeight
    IN  IF maxScrollDistance > 0
        THEN RoundDiv(offsetY * PS, maxScrollDistance)
        ELSE 0

\* Math.max(0, Math.min(1, progress)) of handleScroll, in 1/PS
ScrollTarget(offsetY, contentSizeHeight, layoutHeight) ==
    LET maxScrollDistance == contentSizeHeight - layoutHeight
        progress == IF maxScrollDistance > 0
                    THEN RoundDiv(offsetY * PS, maxScrollDistance)
                    ELSE 0
    IN  Max(0, Min(PS, progress))

\* ---------------------------------------------------------------- withSpring
\* withSpring(target, {damping: 30, stiffness: 500}), mass 1 (the default):
\*   zeta = damping / (2*sqrt(stiffness*mass)) = 0.6708 < 1   (under-damped)
\*   omega0 = sqrt(stiffness/mass) = 22.3607, omega1 = omega0*sqrt(1 - zeta^2) = 16.5831
\* One frame (t = 1/FramesPerSecond) of the closed-form under-damped solution is
\* linear in u = current - toValue and w = velocity*t:
\*   u' = e*(cos(omega1 t) + zeta*omega0/omega1*sin(omega1 t))*u + e*sin(omega1 t)/(omega1 t)*w
\*   w' = -e*omega0^2*t/omega1*sin(omega1 t)*u + e*(cos(omega1 t) - zeta*omega0/omega1*sin(omega1 t))*w
\* with e = exp(-zeta*omega0*t).  The four coefficients, in 1/SpringScale:
SpringScale == PS
SpringUU == 9415
SpringUW == 7689
SpringWU == -1068
SpringWW == 5570

\* the animation ends when |velocity| < restSpeedThreshold (per second) and
\* |toValue - current| < restDisplacementThreshold (1/100 of a unit)
restSpeedThreshold == 2
restDisplacementHundredths == 1

\* the spring's state after one frame: displacement from toValue and velocity
SpringFrame(u, w) ==
    [u |-> RoundDiv(SpringUU * u + SpringUW * w, SpringScale),
     w |-> RoundDiv(SpringWU * u + SpringWW * w, SpringScale)]

SpringAtRest(u, w) ==
    /\ Abs(w) * FramesPerSecond < restSpeedThreshold * PS
    /\ Abs(u) * 100 < restDisplacementHundredths * PS

\* -------------------------------------------------------- animatedMaskProps

HiddenProps ==
    [opacity |-> 0, strokeDasharray |-> <<0, 1000 * LS>>, strokeDashoffset |-> 0]

\* animatedMaskProps without the contentHeight <= scrollViewHeight test
MaskPropsNoContentTest(rail, content, viewport, geometry, progress) ==
    IF ~rail \/ Len(geometry.railPath) = 0 \/ geometry.totalLength = 0
    THEN HiddenProps
    ELSE [strokeDasharray  |-> <<visibleLength * LS, geometry.totalLength>>,
          strokeDashoffset |-> (-(progress * geometry.totalLength))
                                   + (visibleLength * LS * PS) \div 2,
          opacity          |-> 1]

\* animatedMaskProps leading with the dash's edge instead of centring it
MaskPropsUncentred(rail, content, viewport, geometry, progress) ==
    IF ~rail \/ content <= viewport \/ Len(geometry.railPath) = 0
    THEN HiddenProps
    ELSE IF geometry.totalLength = 0
    THEN HiddenProps
    ELSE [strokeDasharray  |-> <<visibleLength * LS, geometry.totalLength>>,
          strokeDashoffset |-> -(progress * geometry.totalLength),
          opacity          |-> 1]

\* the props for the given closure values; strokeDasharray in 1/LS pixel,
\* strokeDashoffset in 1/(LS*PS) pixel
MaskProps(rail, content, viewport, geometry, progress) ==
    IF ~rail \/ content <= viewport \/ Len(geometry.railPath) = 0
    THEN HiddenProps
    ELSE IF geometry.totalLength = 0
    THEN HiddenProps
    ELSE LET currentPosition == progress * geometry.totalLength
         IN  [strokeDasharray  |-> <<visibleLength * LS, geometry.totalLength>>,
              strokeDashoffset |-> (-currentPosition) + (visibleLength * LS * PS) \div 2,
              opacity          |-> 1]

animatedMaskProps ==
    MaskProps(showRail, contentHeight, scrollViewHeight, railGeometry, scrollProgress)

\* ------------------------------------------------------------ environment

NoDimensions == [width |-> 0, height |-> 0]

\* container sizes the layout system reports (pixels)
Layouts == {NoDimensions, [width |-> 390, height |-> 844]}
\* content heights reported by onContentSizeChange
ContentHeights == {800, 2000}
\* ScrollView heights reported by its onLayout
ViewportHeights == {800}
\* scroll events: contentOffset.y, contentSize.height, layoutMeasurement.height
ScrollOffsets == {-50, 0, 600, 1200, 1300}
ScrollSizes == {<<2000, 800>>, <<400, 400>>, <<400, 800>>}

\* const railGeometry = calculateRailPath() of a render with container size dim;
\* the results for the sizes of Layouts are tabulated once
RailGeometryTable == [dim \in Layouts |-> CalculateRailPath(dim)]

Render(dim) ==
    IF dim \in DOMAIN RailGeometryTable
    THEN RailGeometryTable[dim]
    ELSE CalculateRailPath(dim)

\* ------------------------------------------------------------------ actions

\* the call count after one more call of calculateRailPath
CountRun(n) == IF n < MaxPathRuns THEN n + 1 ELSE n

Init ==
    /\ containerDimensions = NoDimensions
    /\ contentHeight = 0
    /\ scrollViewHeight = 0
    /\ showRail = TRUE
    /\ railGeometry = Render(NoDimensions)
    /\ scrollProgress = 0
    /\ toValue = 0
    /\ velocity = 0
    /\ animating = FALSE
    /\ nScrolls = 0
    /\ pathRuns = 1
    /\ contentOffsetY = 0

\* onLayout of the container: setContainerDimensions, then the re-render
HandleContainerLayout(dim) ==
    /\ containerDimensions' = dim
    /\ railGeometry' = Render(dim)
    /\ pathRuns' = CountRun(pathRuns)
    /\ UNCHANGED <<contentHeight, scrollViewHeight, showRail, scrollProgress,
                   toValue, velocity, animating, nScrolls, contentOffsetY>>

\* onContentSizeChange: setContentHeight, then the re-render
ContentSizeChange(height) ==
    /\ contentHeight' = height
    /\ railGeometry' = Render(containerDimensions)
    /\ pathRuns' = IF height = contentHeight THEN pathRuns ELSE CountRun(pathRuns)
    /\ UNCHANGED <<containerDimensions, scrollViewHeight, showRail, scrollProgress,
                   toValue, velocity, animating, nScrolls, contentOffsetY>>

\* onLayout of the ScrollView: setScrollViewHeight, then the re-render
ScrollViewLayout(height) ==
    /\ scrollViewHeight' = height
    /\ railGeometry' = Render(containerDimensions)
    /\ pathRuns' = IF height = scrollViewHeight THEN pathRuns ELSE CountRun(pathRuns)
    /\ UNCHANGED <<containerDimensions, contentHeight, showRail, scrollProgress,
                   toValue, velocity, animating, nScrolls, contentOffsetY>>

\* App's toggleRail: the showRail prop flips, then the re-render
ToggleRail ==
    /\ showRail' = ~showRail
    /\ railGeometry' = Render(containerDimensions)
    /\ pathRuns' = CountRun(pathRuns)
    /\ UNCHANGED <<containerDimensions, contentHeight, scrollViewHeight,
                   scrollProgress, toValue, velocity, animating, nScrolls,
                   contentOffsetY>>

\* App's changeColor: the scrollBarColor prop changes, then the re-render
ChangeColor ==
    /\ railGeometry' = Render(containerDimensions)
    /\ pathRuns' = CountRun(pathRuns)
    /\ UNCHANGED <<containerDimensions, contentHeight, scrollViewHeight, showRail,
                   scrollProgress, toValue, velocity, animating, nScrolls,
                   contentOffsetY>>

\* handleScroll restarting the animation from 0 instead of retargeting it
HandleScrollRestart(offsetY, contentSizeHeight, layoutHeight) ==
    /\ nScrolls < MaxScrolls
    /\ nScrolls' = nScrolls + 1
    /\ toValue' = ScrollTarget(offsetY, contentSizeHeight, layoutHeight)
    /\ animating' = TRUE
    /\ scrollProgress' = 0
    /\ velocity' = 0
    /\ UNCHANGED <<containerDimensions, contentHeight, scrollViewHeight, showRail,
                   railGeometry, pathRuns, contentOffsetY>>

\* onScroll: the spring on scrollProgress is given a new target; it starts from
\* the shared value's current value and the running animation's velocity.  The
\* handler stores nothing else; the event's payload is a free input here
HandleScroll(offsetY, contentSizeHeight, layoutHeight) ==
    /\ nScrolls < MaxScrolls
    /\ nScrolls' = nScrolls + 1
    /\ toValue' = ScrollTarget(offsetY, contentSizeHeight, layoutHeight)
    /\ animating' = TRUE
    /\ UNCHANGED <<scrollProgress, velocity>>
    /\ UNCHANGED <<containerDimensions, contentHeight, scrollViewHeight, showRail,
                   railGeometry, pathRuns, contentOffsetY>>

\* a spring that stops where it is once at rest, without taking toValue
SpringTickNoSnap ==
    /\ animating
    /\ LET next == SpringFrame(scrollProgress - toValue, velocity)
       IN  /\ scrollProgress' = toValue + next.u
           /\ IF SpringAtRest(next.u, next.w)
              THEN velocity' = 0 /\ animating' = FALSE
              ELSE velocity' = next.w /\ animating' = TRUE
    /\ UNCHANGED <<containerDimensions, contentHeight, scrollViewHeight, showRail,
                   railGeometry, toValue, nScrolls, pathRuns, contentOffsetY>>

\* one frame of the running spring animation
SpringTick ==
    /\ animating
    /\ LET next == SpringFrame(scrollProgress - toValue, velocity)
       IN  IF SpringAtRest(next.u, next.w)
           THEN /\ scrollProgress' = toValue
                /\ velocity' = 0
                /\ animating' = FALSE
           ELSE /\ scrollProgress' = toValue + next.u
                /\ velocity' = next.w
                /\ animating' = TRUE
    /\ UNCHANGED <<containerDimensions, contentHeight, scrollViewHeight, showRail,
                   railGeometry, toValue, nScrolls, pathRuns, contentOffsetY>>

Next ==
    \/ \E dim \in Layouts : HandleContainerLayout(dim)
    \/ \E height \in ContentHeights : ContentSizeChange(height)
    \/ \E height \in ViewportHeights : ScrollViewLayout(height)
    \/ ToggleRail
    \/ ChangeColor
    \/ \E offsetY \in ScrollOffsets, size \in ScrollSizes :
          HandleScroll(offsetY, size[1], size[2])
    \/ SpringTick

Spec == Init /\ [][Next]_vars

\* the animation clock keeps ticking while an animation runs
FairSpec == Spec /\ WF_vars(SpringTick)

\* ------------------------------------------- calculateRailPath on its own

GeomSizes(step) == {step * n : n \in 0..MaxGeomIndex}

InitGeom ==
    /\ containerDimensions \in [width : GeomSizes(3), height : GeomSizes(4)]
    /\ contentHeight = 0
    /\ scrollViewHeight = 0
    /\ showRail = TRUE
    /\ railGeometry = Render(containerDimensions)
    /\ scrollProgress = 0
    /\ toValue = 0
    /\ velocity = 0
    /\ animating = FALSE
    /\ nScrolls = 0
    /\ pathRuns = 1
    /\ contentOffsetY = 0

\* the device is rotated: the container is laid out with its sides exchanged
RotateLayout ==
    HandleContainerLayout([width  |-> containerDimensions.height,
                           height |-> containerDimensions.width])

NextGeom == RotateLayout

GeomSpec == InitGeom /\ [][NextGeom]_vars

\* ------------------------------------------- the native ScrollView as host

\* content heights the native ScrollView grows to
HostContentHeights == {2000, 3200}
\* positions the user scrolls to
HostOffsets == {0, 600}

\* the user moves the native ScrollView to offsetY, a position inside its
\* scrollable range; its onScroll event carries that position together with
\* the content size and the layout height it has reported before, and
\* handleScroll hands the spring its new target
NativeScroll(offsetY) ==
    /\ offsetY <= Max(0, contentHeight - scrollViewHeight)
    /\ nScrolls < MaxScrolls
    /\ nScrolls' = nScrolls + 1
    /\ contentOffsetY' = offsetY
    /\ toValue' = ScrollTarget(offsetY, contentHeight, scrollViewHeight)
    /\ animating' = TRUE
    /\ UNCHANGED <<scrollProgress, velocity>>
    /\ UNCHANGED <<containerDimensions, contentHeight, scrollViewHeight, showRail,
                   railGeometry, pathRuns>>

NextHost ==
    \/ \E dim \in Layouts : HandleContainerLayout(dim)
    \/ \E height \in HostContentHeights : ContentSizeChange(height)
    \/ \E height \in ViewportHeights : ScrollViewLayout(height)
    \/ \E offsetY \in HostOffsets : NativeScroll(offsetY)
    \/ SpringTick

HostSpec == Init /\ [][NextHost]_vars

\* ==================================================================== claims

Unmeasured == containerDimensions.width = 0 \/ containerDimensions.height = 0

\* none of the hide conditions holds
Visible ==
    /\ showRail
    /\ contentHeight > scrollViewHeight
    /\ ~Unmeasured
    /\ railGeometry.totalLength > 0

\* C1: whenever showRail is false, or contentHeight <= scrollViewHeight, or the
\* viewport is unmeasured (empty rail path), or totalLength is 0, the indicator
\* has opacity 0 and a visible dash of length 0; the initial state included.
C1_HiddenWhenAnyHideCondition ==
    (\/ ~showRail
     \/ contentHeight <= scrollViewHeight
     \/ Unmeasured
     \/ railGeometry.railPath = <<>>
     \/ railGeometry.totalLength = 0)
    => /\ animatedMaskProps.opacity = 0
       /\ animatedMaskProps.strokeDasharray[1] = 0

\* the rail is switched off while everything else would show it, mid-scroll
C1_Witness ==
    /\ ~showRail
    /\ contentHeight > scrollViewHeight
    /\ ~Unmeasured
    /\ scrollProgress > 0
    /\ animatedMaskProps.opacity = 0

\* C2: the animated progress value scrollProgress is in [0,1] in every state.
C2_ProgressInUnitInterval == scrollProgress >= 0 /\ scrollProgress <= PS

\* target is offsetY / range on the 1/PS grid, clamped to [0,1]; 0 when range <= 0
IsClampedRatio(target, offsetY, range) ==
    /\ target >= 0
    /\ target <= PS
    /\ IF range <= 0 THEN target = 0
       ELSE IF offsetY <= 0 THEN target = 0
       ELSE IF offsetY >= range THEN target = PS
       ELSE 2 * Abs(target * range - offsetY * PS) <= range

\* C3: for every scroll event the target handed to the spring is in [0,1]: the
\* ratio contentOffset.y / (contentSize.height - layoutMeasurement.height)
\* clamped to [0,1] when that range is > 0, and 0 when the range is <= 0.
C3_TargetIsClampedRatio ==
    [][\A offsetY \in ScrollOffsets, size \in ScrollSizes :
          HandleScroll(offsetY, size[1], size[2])
              => IsClampedRatio(toValue', offsetY, size[1] - size[2])]_vars

\* an in-range scroll event has set the target to one half
C3_Witness == nScrolls > 0 /\ animating /\ toValue = PS \div 2

\* C4: on every tick the distance |scrollProgress - toValue| does not increase
\* and the value does not pass the target.
C4_MonotoneSettling ==
    [][SpringTick =>
          /\ Abs(scrollProgress' - toValue) <= Abs(scrollProgress - toValue)
          /\ (scrollProgress' - toValue) * (scrollProgress - toValue) >= 0]_vars

\* C5: a scroll event that arrives while the spring is still running changes
\* only the target: scrollProgress is the same right after it as right before
\* (no reset to 0 or to the start of the earlier animation); the spring keeps
\* its velocity.
C5_RetargetKeepsValue ==
    [][(animating /\ nScrolls' # nScrolls)
          => /\ scrollProgress' = scrollProgress
             /\ velocity' = velocity
             /\ animating']_vars

\* a second scroll event arrived while the value was still on its way to 1:
\* the follower is above 1 and heading for the new target 0
C5_Witness ==
    /\ nScrolls = 2
    /\ animating
    /\ toValue = 0
    /\ scrollProgress > PS

\* the spring has stopped on its target; on target 1/2 the visible indicator is
\* centred on the middle of the rail
SettledOnTarget ==
    /\ ~animating
    /\ scrollProgress = toValue
    /\ (Visible /\ toValue = PS \div 2)
          => 2 * animatedMaskProps.strokeDashoffset
                = visibleLength * LS * PS - PS * railGeometry.totalLength

\* C6: with the animation clock ticking, after the last scroll event
\* scrollProgress eventually equals the target of that event and stays there;
\* with target 1/2 (contentHeight 2000, viewport 800, offset 600) the visible
\* indicator then has dashOffset = visibleLength/2 - totalLength/2.
C6_EventuallySettles == <>[]SettledOnTarget

\* settled on one half after a scroll, the indicator showing
C6_Witness ==
    /\ nScrolls > 0
    /\ ~animating
    /\ scrollProgress = PS \div 2
    /\ Visible
    /\ animatedMaskProps.opacity = 1

\* C7: when no hide condition holds, animatedMaskProps is opacity 1, dash
\* pattern (visibleLength, totalLength) and
\* dashOffset = visibleLength/2 - progress*totalLength; with the geometry fixed
\* a larger progress gives a strictly smaller dashOffset.
C7_VisibleProps ==
    [][/\ Visible' =>
             /\ animatedMaskProps'.opacity = 1
             /\ animatedMaskProps'.strokeDasharray
                   = <<visibleLength * LS, railGeometry'.totalLength>>
             /\ 2 * animatedMaskProps'.strokeDashoffset
                   = visibleLength * LS * PS
                        - 2 * scrollProgress' * railGeometry'.totalLength
       /\ (/\ Visible /\ Visible'
           /\ railGeometry' = railGeometry
           /\ scrollProgress' > scrollProgress)
             => animatedMaskProps'.strokeDashoffset
                   < animatedMaskProps.strokeDashoffset]_vars

\* the indicator is showing while the spring is between 0 and 1
C7_Witness ==
    /\ Visible
    /\ animating
    /\ scrollProgress > 0
    /\ scrollProgress < PS
    /\ animatedMaskProps.opacity = 1

\* the renderer's stroke-dasharray rule: path distance s (1/LS pixel) is drawn
\* iff it falls on a dash of the repeating pattern shifted by strokeDashoffset
OnDash(props, s) ==
    LET period == (props.strokeDasharray[1] + props.strokeDasharray[2]) * PS
    IN  ((s * PS + props.strokeDashoffset) % period) < props.strokeDasharray[1] * PS

\* path distances sampled once per pixel
PathSamples(geometry) == {LS * n : n \in 0..(geometry.totalLength \div LS)}

\* C8: in the visible state the drawn part of the rail is exactly the window
\* [progress*totalLength - visibleLength/2, progress*totalLength + visibleLength/2]
\* cut to the path: no other dash of the pattern lands on the path.
C8_SingleSegment ==
    Visible =>
        \A s \in PathSamples(railGeometry) :
            OnDash(animatedMaskProps, s)
                <=> /\ 2 * s * PS >= 2 * scrollProgress * railGeometry.totalLength
                                        - visibleLength * LS * PS
                    /\ 2 * s * PS < 2 * scrollProgress * railGeometry.totalLength
                                        + visibleLength * LS * PS

Measured == containerDimensions.width > 0 /\ containerDimensions.height > 0

\* C9 as claimed: for every measured viewport there are 6 points and 5 segment
\* lengths, every length strictly positive.
C9_AllLengthsPositive ==
    Measured =>
        /\ Len(railGeometry.points) = 6
        /\ Len(railGeometry.segmentLengths) = 5
        /\ \A i \in 1..5 : railGeometry.segmentLengths[i] > 0

\* C9 as amended: for every measured viewport there are 6 points and 5 segment
\* lengths, one per consecutive point pair; the two arc lengths are strictly
\* positive and the three straight lengths are non-negative, a straight
\* length being 0 exactly when its two end points coincide.
C9_LengthsNonNegative ==
    Measured =>
        /\ Len(railGeometry.points) = 6
        /\ Len(railGeometry.segmentLengths) = Len(railGeometry.points) - 1
        /\ railGeometry.segmentLengths[2] > 0
        /\ railGeometry.segmentLengths[4] > 0
        /\ \A i \in {1, 3, 5} :
              /\ railGeometry.segmentLengths[i] >= 0
              /\ (railGeometry.segmentLengths[i] = 0
                    <=> railGeometry.points[i] = railGeometry.points[i + 1])

\* a measured viewport whose vertical run has length 0
C9_Witness ==
    /\ Measured
    /\ containerDimensions.height = 2 * edgePadding + 4 * cornerRadius
    /\ railGeometry.segmentLengths[3] = 0

\* C10: with width or height 0 calculateRailPath returns the empty geometry
\* (no points, no lengths, totalLength 0, empty path); with both non-zero it
\* returns a non-empty path.
C10_EmptyIffUnmeasured ==
    /\ Unmeasured =>
          railGeometry = [railPath |-> <<>>, points |-> <<>>,
                          segmentLengths |-> <<>>, totalLength |-> 0]
    /\ ~Unmeasured => Len(railGeometry.railPath) > 0

\* only the width is 0
C10_Witness ==
    /\ containerDimensions.width = 0
    /\ containerDimensions.height > 0
    /\ railGeometry.railPath = <<>>
    /\ railGeometry.totalLength = 0

\* C11 as claimed: calculateRailPath runs only in a step that changes the
\* container dimensions: a re-render caused by a content-size change, a
\* ScrollView layout change, a showRail toggle or a colour prop change does not
\* run it again, and a scroll event or animation frame does not run it either.
C11_RecomputedOnlyOnDimensionChange ==
    [][pathRuns' # pathRuns => containerDimensions' # containerDimensions]_vars

\* s is Math.sqrt(dx*dx + dy*dy) on the 1/LS grid
IsDistance(s, a, b) ==
    LET dx == b.x - a.x
        dy == b.y - a.y
    IN  /\ s >= 0
        /\ s * s <= dx * dx + dy * dy
        /\ (s + 1) * (s + 1) > dx * dx + dy * dy

\* s is pi*cornerRadius/2 + 2 on the 1/LS grid
IsArcLength(s) ==
    Abs(2 * 1000 * (s - 2 * LS) - PiMilli * cornerRadius * LS) <= 1000

\* C12: for every measured viewport totalLength is exactly the sum of the 5
\* entries of segmentLengths, the segments at index 1 and 3 both have length
\* pi*cornerRadius/2 + 2, and the segments at index 0, 2 and 4 have the
\* Euclidean distance between their end points.
C12_LengthBookkeeping ==
    Measured =>
        LET s == railGeometry.segmentLengths
            p == railGeometry.points
        IN  /\ Len(s) = 5
            /\ railGeometry.totalLength = s[1] + s[2] + s[3] + s[4] + s[5]
            /\ IsArcLength(s[2])
            /\ IsArcLength(s[4])
            /\ \A i \in {1, 3, 5} : IsDistance(s[i], p[i], p[i + 1])

\* a 300 x 600 viewport: 5.3 + 20.9 + 532 + 20.9 + 5.3 = 584.4 pixels
C12_Witness ==
    /\ containerDimensions = [width |-> 300, height |-> 600]
    /\ railGeometry.segmentLengths = <<53, 209, 5320, 209, 53>>
    /\ railGeometry.totalLength = 5844

\* the 0-based segment indices whose pushed length is not a distance between
\* points: the ones with a non-zero length when all six points coincide
ArcSegments ==
    LET origin == [x |-> 0, y |-> 0]
        same == <<origin, origin, origin, origin, origin, origin>>
    IN  {i \in 0..4 : SegmentLengths(same, 5)[i + 1] # 0}

\* C13: for every measured viewport the path is M P0, L P1, A P2, L P3, A P4,
\* L P5; each arc command has both radii cornerRadius, x-axis rotation 0,
\* large-arc flag 0 and sweep flag 1; the arcs are drawn for exactly the point
\* pairs (P1,P2) and (P3,P4), the segments (index 1 and 3) whose length is
\* booked as an arc length.
C13_PathCommands ==
    Measured =>
        LET p == railGeometry.points
            path == railGeometry.railPath
            arc(pt) == <<"A", cornerRadius, cornerRadius, 0, 0, 1, pt.x, pt.y>>
            line(pt) == <<"L", pt.x, pt.y>>
        IN  /\ path = << <<"M", p[1].x, p[1].y>>, line(p[2]), arc(p[3]),
                         line(p[4]), arc(p[5]), line(p[6]) >>
            /\ {k - 2 : k \in {j \in 2..Len(path) : path[j][1] = "A"}} = ArcSegments
            /\ ArcSegments = {1, 3}
            /\ \A i \in ArcSegments : IsArcLength(railGeometry.segmentLengths[i + 1])

\* a 300 x 600 viewport: arcs into (290, 34) and (278, 578)
C13_Witness ==
    /\ containerDimensions = [width |-> 300, height |-> 600]
    /\ Len(railGeometry.railPath) = 6
    /\ railGeometry.railPath[3] = <<"A", 12, 12, 0, 0, 1, 2900, 340>>
    /\ railGeometry.railPath[5] = <<"A", 12, 12, 0, 0, 1, 2780, 5780>>

\* C14 as claimed: after any sequence of scroll, content-size and layout
\* events, once the spring has settled the progress the showing indicator
\* displays is clamp(contentOffsetY / max(0, contentHeight - scrollViewHeight))
\* of the current scroll state; a content-size or ScrollView layout change
\* without a following scroll event leaves no position of the old range.
C14_SettledProgressIsCurrent ==
    (~animating /\ Visible)
        => IsClampedRatio(scrollProgress, contentOffsetY,
                          contentHeight - scrollViewHeight)

=============================================================================
